---- MODULE Spec2Model ----
(***************************************************************************)
(* Model of the local sync agents (src/local-sync-agent): the per-source   *)
(* adapters (Granola, Fathom, iMessage, Plaud, WhatsApp), the delivery     *)
(* client and the unified sync manager.                                    *)
(*                                                                         *)
(* A worker is one process: either sync_manager.run_all_syncs over a list  *)
(* of enabled sources, or the main() of one adapter script.  A cycle is    *)
(* one agent construction (load of the state file) followed by the         *)
(* adapter's sync operation.  The steps of a cycle are separate actions so *)
(* that a kill of the process between two steps is a reachable state.      *)
(***************************************************************************)
EXTENDS Integers, Sequences, FiniteSets, TLC

VARIABLES
    file,       \* [Sources -> state file content] (~/.ninja_os_<src>_synced.json)
    run,        \* [Workers -> the process: pc, mode, queue, force, results]
    agent,      \* [Workers -> the agent object: synced_ids, items, todo]
    hist,       \* [Workers -> history of the worker's current/latest cycle]
    last,       \* the latest completed batch cycle (history)
    cron,       \* the scheduled job: the sources it runs (<<>>: not yet run)
    cycles,     \* number of cycles the processes started so far were given
    cache,      \* [Sources -> the source's native store: its raw records]
    main,       \* main() of the process: pc, url, flag, srcs, failed
    probe       \* one function of an adapter followed on its own: inputs, result

vars == <<file, run, agent, hist, last, cron, cycles, cache, main, probe>>

----------------------------------------------------------------------------
(* Bounds of the model *)

\* records each batch source holds (Granola cache, Fathom API, iMessage db)
NumRecords == 3
\* config.MAX_ITEMS_PER_SYNC is 100; scaled down so that a source can hold
\* more unsynced records than one batch takes
MAX_ITEMS_PER_SYNC == 2
\* audio recordings in the Plaud directory
NumRecordings == 2
\* export files at the top level of the WhatsApp directory
NumExports == 1
\* cycles in one behaviour: an adapter script takes one, a run of the
\* manager one per enabled source
MaxCycles == 2

----------------------------------------------------------------------------
(* Program constants *)

LOOKBACK_HOURS == 24

Sources == {"granola", "fathom", "imessage", "plaud", "whatsapp"}
BatchSources == {"granola", "fathom", "imessage"}
FileSources == {"plaud", "whatsapp"}
Workers == {"w1", "w2"}

\* the order in which run_all_syncs visits the sources it knows
ManagerOrder == <<"granola", "imessage", "plaud", "whatsapp">>

\* an id the server made up: not the externalId of any record (also the
\* None that item_result.get('id') yields when the entry has no id)
ForeignId == 0

None == [id |-> -1]

----------------------------------------------------------------------------
(* State file *)

Absent == [kind |-> "absent", ids |-> {}]
\* content json.load rejects (empty, truncated, partial) or set() rejects
\* (a number, null, a list holding an unhashable value)
Garbage == [kind |-> "garbage", ids |-> {}]
\* a JSON list of ids, as json.dump(list(self.synced_ids)) writes it
JsonList(S) == [kind |-> "list", ids |-> S]
\* a JSON object with keys S (or a JSON string with characters S)
JsonObject(S) == [kind |-> "object", ids |-> S]

\* what _load_synced_ids would be left with if an exception escaped it
Raised == {-1}

\* faulty variant: no except clause, json.load / set() raise out of the constructor
LoadSyncedIds_noexcept(f) ==
    IF f.kind = "absent" THEN {}
    ELSE IF f.kind = "garbage" THEN Raised
    ELSE f.ids

\* _load_synced_ids: set(json.load(f)); absence or any exception -> set().
\* set() of a JSON object is the set of its keys
LoadSyncedIds(f) ==
    IF f.kind = "absent" THEN {}
    ELSE IF f.kind = "garbage" THEN {}
    ELSE f.ids

\* faulty variant: write-to-temp-then-rename, the file is never seen truncated
OpenForWrite_keep(f) == f

\* open(self.synced_ids_file, 'w'): the file exists and is empty
OpenForWrite(f) == Garbage

\* json.dump(list(self.synced_ids), f)
DumpSyncedIds(ids) == JsonList(ids)

----------------------------------------------------------------------------
(* Source data *)

\* how many raw records the source holds
RecordCount(s) ==
    IF s = "plaud" THEN NumRecordings
    ELSE IF s = "whatsapp" THEN NumExports
    ELSE NumRecords

\* the store every behaviour of Spec and ScriptSpec starts with: recent
\* well-formed recent records only (age: seconds before now; form: "ok",
\* "malformed" when parsing the record raises, "badtime" when only its
\* timestamp cannot be parsed)
DefaultRecords(s) ==
    [i \in 1..RecordCount(s) |-> [id |-> i, age |-> 1, form |-> "ok"]]

RECURSIVE InsertByAge(_, _)
\* rec put into a newest-first sequence, before the records of its age
\* (the sort is stable)
InsertByAge(rec, sorted) ==
    IF sorted = <<>> THEN <<rec>>
    ELSE IF rec.age <= Head(sorted).age THEN <<rec>> \o sorted
    ELSE <<Head(sorted)>> \o InsertByAge(rec, Tail(sorted))

RECURSIVE NewestFirst(_)
\* recordings.sort(key=getmtime, reverse=True); ORDER BY m.date DESC
NewestFirst(recs) ==
    IF recs = <<>> THEN <<>>
    ELSE InsertByAge(Head(recs), NewestFirst(Tail(recs)))

\* the raw records of a source, in the order the listing yields them:
\* _read_cache and _fetch_meetings keep the order of the cache file and of
\* the API pages, _find_recordings and _get_conversations sort newest first
SourceRecords(s) ==
    IF s \in {"plaud", "imessage"} THEN NewestFirst(cache[s]) ELSE cache[s]

\* _generate_external_id: a function of the record's natural key
ExternalId(s, rec) == rec.id

\* hours of lookback the adapter applies
WindowHours(s) ==
    IF s \in {"granola", "fathom"} THEN LOOKBACK_HOURS * 24 * 7
    ELSE IF s = "plaud" THEN LOOKBACK_HOURS * 24
    ELSE LOOKBACK_HOURS

\* the same in seconds
Window(s) == WindowHours(s) * 3600

\* the test of the adapter on a record made age seconds ago: Granola and
\* Fathom drop when now - meeting_time > window, Plaud skips when
\* mtime < cutoff, the iMessage query selects m.date > since
InWindow(s, age) ==
    IF s = "imessage" THEN age < Window(s) ELSE age <= Window(s)

\* the except clause around the window test of Granola and Fathom: a
\* timestamp that cannot be parsed passes (iMessage dates are integers)
PassesWindow(s, rec) ==
    IF rec.form = "badtime" /\ s \in {"granola", "fathom"} THEN TRUE
    ELSE InWindow(s, rec.age)

\* faulty variant: a record already in synced_ids is parsed again
ParseMeeting_nodedup(s, rec, synced_ids) ==
    IF rec.form = "malformed" THEN None
    ELSE IF ~PassesWindow(s, rec) THEN None
    ELSE [id |-> ExternalId(s, rec)]

\* _parse_meeting: None when parsing raises, when already synced or when
\* outside the window
ParseMeeting(s, rec, synced_ids) ==
    IF rec.form = "malformed" THEN None
    ELSE IF ExternalId(s, rec) \in synced_ids THEN None
    ELSE IF ~PassesWindow(s, rec) THEN None
    ELSE [id |-> ExternalId(s, rec)]

RECURSIVE ParseLoop_nocap(_, _, _, _)
\* faulty variant: the loop never breaks
ParseLoop_nocap(s, recs, synced_ids, acc) ==
    IF recs = <<>> THEN acc
    ELSE LET parsed == ParseMeeting(s, Head(recs), synced_ids)
         IN  ParseLoop_nocap(s, Tail(recs), synced_ids,
                             IF parsed # None THEN Append(acc, parsed.id) ELSE acc)

RECURSIVE ParseLoop(_, _, _, _)
\* the loop of sync(): append every parsed item, stop at the cap
ParseLoop(s, recs, synced_ids, acc) ==
    IF recs = <<>> THEN acc
    ELSE LET parsed == ParseMeeting(s, Head(recs), synced_ids)
             acc2 == IF parsed # None THEN Append(acc, parsed.id) ELSE acc
         IN  IF Len(acc2) >= MAX_ITEMS_PER_SYNC THEN acc2
             ELSE ParseLoop(s, Tail(recs), synced_ids, acc2)

\* the externalIds of the items one cycle extracts, in order
ExtractItems(s, synced_ids) ==
    ParseLoop(s, SourceRecords(s), synced_ids, <<>>)

Range(q) == {q[i] : i \in DOMAIN q}


----------------------------------------------------------------------------
(* Delivery endpoint (external): what one call can come back with *)

Statuses == {"created", "skipped", "failed"}

\* raise_for_status() or the transport raised, or the body is no JSON object
ErrorResponse == [kind |-> "error", results |-> {}, processed |-> 0]

\* no call was made
NoResponse == [kind |-> "none", results |-> {}, processed |-> 0]

\* the per-item results list: one entry per item the server reports on
ResultsOf(f) ==
    {[id |-> i, status |-> f[i]] : i \in {j \in DOMAIN f : f[j] # "none"}}

\* 2xx bodies for a batch of ids: each item reported with a status or left
\* out, with (extras) or without an entry under an id of the server's own,
\* and a batch-level count
OkResponses(ids, extras, counts) ==
    {[kind |-> "ok",
      results |-> ResultsOf(f) \cup
                  (IF e THEN {[id |-> ForeignId, status |-> "created"]} ELSE {}),
      processed |-> n] :
        f \in [ids -> Statuses \cup {"none"}], e \in extras, n \in counts}

\* what /api/sync/push can come back with for a batch
PushResponses(ids) == {ErrorResponse} \cup OkResponses(ids, BOOLEAN, {0})

\* what /api/sync/push can come back with for the single item of an export
\* file: processed is 0 or 1
SingleResponses(id) == {ErrorResponse} \cup OkResponses({id}, {FALSE}, {0, 1})

\* what /api/sync/transcribe can come back with: one status, for the
\* recording sent
TranscribeResponses(id) == {ErrorResponse} \cup OkResponses({id}, {FALSE}, {0})

\* ids a 2xx response reports as created or skipped
ReportedOk(r) ==
    {x.id : x \in {y \in r.results : y.status \in {"created", "skipped"}}}

\* faulty variant: every id of the results list is marked, whatever its status
CommitIds_anystatus(results) == {x.id : x \in results}

\* faulty variant: only created items are marked
CommitIds_createdonly(results) ==
    {x.id : x \in {y \in results : y.status = "created"}}

\* the commit loop of sync(): ids whose status is created or skipped
CommitIds(results) ==
    {x.id : x \in {y \in results : y.status \in {"created", "skipped"}}}

----------------------------------------------------------------------------
(* Initial state *)

NoResults == [s \in Sources |-> "none"]

IdleRun == [pc |-> "idle", mode |-> "none", queue |-> <<>>, enabled |-> {},
            force |-> FALSE, results |-> NoResults]

NoAgent == [synced_ids |-> {}, items |-> <<>>, todo |-> <<>>]

\* a completed cycle: the ids it pushed, those of them a 2xx response
\* reported created or skipped, and whether the cycle ended with the state
\* file holding the in-memory set
NoLast ==
    [src |-> "none", pushed |-> {}, ok |-> {}, known |-> {}, stable |-> FALSE,
     answered |-> FALSE]

\* history of a cycle: the state file and the set loaded from it when the
\* agent was constructed, the in-memory set when the items were extracted,
\* whether and how the endpoint answered and which ids it reported created
\* or skipped, whether the state file was opened for writing (then: the
\* set it held and the set being written), how the cycle ended, and the
\* cycle that ran right before on the same source
NoHist == [src |-> "none", preFile |-> Absent, preMem |-> {}, base |-> {},
           resp |-> "none", syncType |-> "none", reported |-> {}, wrote |-> FALSE,
           fileWas |-> {}, saving |-> {},
           extracted |-> FALSE, outcome |-> "none", prev |-> NoLast]

\* the command line of the process when it is followed from main(): where
\* main() is, the --url it was given, its --force flag, the sources of the
\* manager, and whether the last round of the daemon ended in an exception
NoMain == [pc |-> "off", url |-> "configured", flag |-> FALSE, srcs |-> <<>>,
           failed |-> FALSE]

\* no function is followed on its own
NoProbe == [pc |-> "off"]

\* what a state file may hold when the first process starts
InitFiles == {Absent, Garbage, JsonList({1, 2}), JsonObject({1})}

Init ==
    /\ \E f \in InitFiles : file = [s \in Sources |-> f]
    /\ run = [w \in Workers |-> IdleRun]
    /\ agent = [w \in Workers |-> NoAgent]
    /\ hist = [w \in Workers |-> NoHist]
    /\ last = NoLast
    /\ cron = <<>>
    /\ cycles = 0
    /\ cache = [s \in Sources |-> DefaultRecords(s)]
    /\ main = NoMain
    /\ probe = NoProbe

----------------------------------------------------------------------------
(* Processes *)

RECURSIVE SubSeqs(_)
\* the sub-sequences of a sequence, order kept
SubSeqs(q) ==
    IF q = <<>> THEN {<<>>}
    ELSE LET rest == SubSeqs(Tail(q))
         IN  rest \cup {<<Head(q)>> \o r : r \in rest}

\* the lists of enabled sources a run of the manager may be given
SourceLists == {q \in SubSeqs(ManagerOrder) : Len(q) >= 1}

\* run_all_syncs(url, sources, force) at its first source
ManagerRun(srcs, f) ==
    [pc |-> "next", mode |-> "manager", queue |-> srcs,
     enabled |-> Range(srcs), force |-> f, results |-> NoResults]

\* main() of an adapter script before the agent is constructed
CliRun(s, f) ==
    [pc |-> "next", mode |-> "cli", queue |-> <<s>>,
     enabled |-> {s}, force |-> f, results |-> NoResults]

\* sync_manager.main / run_daemon: run_all_syncs(url, sources, force); the
\* scheduled job keeps its list of sources from one run to the next
StartManager(w, srcs, f) ==
    /\ run[w].pc = "idle"
    /\ cycles + Len(srcs) <= MaxCycles
    /\ cycles' = cycles + Len(srcs)
    /\ cron \in {<<>>, <<"manager", srcs>>}
    /\ cron' = <<"manager", srcs>>
    /\ run' = [run EXCEPT ![w] = ManagerRun(srcs, f)]
    /\ hist' = [hist EXCEPT ![w] = NoHist]
    /\ UNCHANGED <<file, agent, last, cache, main, probe>>

\* main() of one adapter script: one agent, one sync
StartAdapter(w, s, f) ==
    /\ run[w].pc = "idle"
    /\ cron \in {<<>>, <<"cli", <<s>>>>}
    /\ cycles + 1 <= MaxCycles
    /\ cycles' = cycles + 1
    /\ cron' = <<"cli", <<s>>>>
    /\ run' = [run EXCEPT ![w] = CliRun(s, f)]
    /\ hist' = [hist EXCEPT ![w] = NoHist]
    /\ UNCHANGED <<file, agent, last, cache, main, probe>>

\* the source the worker is at
Cur(w) == Head(run[w].queue)

\* faulty variant: an error in one source ends the whole run
Recorded_abort(w, res) ==
    [run EXCEPT ![w].results[Cur(w)] = res,
                ![w].queue = IF res = "error" THEN <<>> ELSE Tail(@),
                ![w].pc = "next"]

\* the source's entry of the report is set and the run goes on to the next
Recorded(w, res) ==
    [run EXCEPT ![w].results[Cur(w)] = res, ![w].queue = Tail(@), ![w].pc = "next"]

\* faulty variant: the ids pushed in the latest cycle of the source are still
\* in memory when the next agent of the source is constructed
NewAgentIds_carried(s) ==
    LET ids == LoadSyncedIds(file[s])
    IN  IF ids = Raised \/ last.src # s THEN ids ELSE ids \cup last.pushed

\* agent = Agent(url, ...): a new object, whose set is what the file holds
NewAgentIds(s) == LoadSyncedIds(file[s])

\* Agent.__init__: self.synced_ids = self._load_synced_ids(); an exception
\* leaving the constructor is the manager's error entry, or ends the script
Construct(w) ==
    /\ run[w].pc = "next"
    /\ run[w].queue # <<>>
    /\ LET s == Cur(w)
           ids == NewAgentIds(s)
       IN  IF ids = Raised
           THEN /\ run' = IF run[w].mode = "manager" THEN Recorded(w, "error")
                          ELSE [run EXCEPT ![w] = IdleRun]
                /\ hist' = [hist EXCEPT ![w] =
                              [NoHist EXCEPT !.src = s, !.preFile = file[s],
                                             !.outcome = "loadraised"]]
                /\ agent' = agent
           ELSE /\ agent' = [agent EXCEPT ![w] =
                               [synced_ids |-> ids, items |-> <<>>, todo |-> <<>>]]
                /\ hist' = [hist EXCEPT ![w] =
                              [NoHist EXCEPT !.src = s, !.preFile = file[s],
                                             !.preMem = ids,
                                             !.prev = IF last.src = s THEN last
                                                      ELSE NoLast]]
                /\ run' = [run EXCEPT ![w].pc = "constructed"]
    /\ last' = NoLast
    /\ UNCHANGED <<file, cron, cycles, cache, main, probe>>

\* run_all_syncs: ImportError or any Exception while importing or
\* constructing the agent becomes the source's error entry
ConstructRaises(w) ==
    /\ run[w].pc = "next"
    /\ run[w].queue # <<>>
    /\ run[w].mode = "manager"
    /\ run' = Recorded(w, "error")
    /\ UNCHANGED <<file, agent, hist, last, cron, cycles, cache, main, probe>>

\* run_all_syncs: the Plaud / WhatsApp directory does not exist
DirectoryMissing(w) ==
    /\ run[w].pc = "next"
    /\ run[w].queue # <<>>
    /\ run[w].mode = "manager"
    /\ Cur(w) \in FileSources
    /\ run' = Recorded(w, "skipped")
    /\ UNCHANGED <<file, agent, hist, last, cron, cycles, cache, main, probe>>

\* run_all_syncs returns the report (main prints it)
Report(w) ==
    /\ run[w].pc = "next"
    /\ run[w].queue = <<>>
    /\ run' = [run EXCEPT ![w].pc = "reported"]
    /\ UNCHANGED <<file, agent, hist, last, cron, cycles, cache, main, probe>>

\* the process ends
Exit(w) ==
    /\ run[w].pc = "reported"
    /\ run' = [run EXCEPT ![w] = IdleRun]
    /\ agent' = [agent EXCEPT ![w] = NoAgent]
    /\ hist' = [hist EXCEPT ![w] = NoHist]
    /\ UNCHANGED <<file, last, cron, cycles, cache, main, probe>>

----------------------------------------------------------------------------
(* One cycle of a batch adapter: GranolaSyncAgent.sync, FathomSyncAgent.sync,
   IMessageSyncAgent.sync *)

\* the cycle of worker w ends: what the next cycle of the source can look
\* back on
Completed(w, pushedIds, reported, stable) ==
    [src |-> hist[w].src, pushed |-> pushedIds,
     ok |-> pushedIds \cap reported,
     known |-> pushedIds \cap hist[w].preMem, stable |-> stable,
     answered |-> hist[w].resp # "none"]

\* faulty variant: every push is sent as incremental
SyncType_incremental(f) == "incremental"

\* sync_type="incremental" if not force else "full"
SyncType(f) == IF f THEN "full" ELSE "incremental"

\* faulty variant: force does not clear the in-memory set
ClearIfForced_never(f, synced_ids) == synced_ids

\* faulty variant: every cycle clears the in-memory set
ClearIfForced_always(f, synced_ids) == {}

\* if force: self.synced_ids = set()
ClearIfForced(f, synced_ids) == IF f THEN {} ELSE synced_ids

\* faulty variant: a cycle with no items still calls the endpoint
AfterExtract_always(its) == "deliver"

\* if not items: return {"synced": 0, ...} before any call
AfterExtract(its) == IF its = <<>> THEN "return" ELSE "deliver"

\* sync(): read the source, clear on force, parse up to the cap
SyncExtract(w) ==
    /\ run[w].pc = "constructed"
    /\ hist[w].src \in BatchSources
    /\ LET s == hist[w].src
           ids == ClearIfForced(run[w].force, agent[w].synced_ids)
           its == ExtractItems(s, ids)
       IN  /\ agent' = [agent EXCEPT ![w].synced_ids = ids, ![w].items = its]
           /\ IF AfterExtract(its) = "return"
              THEN /\ run' = Recorded(w, "nonew")
                   /\ hist' = [hist EXCEPT ![w].extracted = TRUE,
                                           ![w].base = ids,
                                           ![w].outcome = "nonew"]
                   /\ last' = Completed(w, {}, {}, TRUE)
              ELSE /\ run' = [run EXCEPT ![w].pc = "deliver"]
                   /\ hist' = [hist EXCEPT ![w].extracted = TRUE,
                                           ![w].base = ids]
                   /\ last' = last
    /\ UNCHANGED <<file, cron, cycles, cache, main, probe>>

\* faulty variant: force clears the set before the database is checked
DeniedIds_cleared(f, synced_ids) == IF f THEN {} ELSE synced_ids

\* IMessageSyncAgent.sync returns before "if force:" is reached
DeniedIds(f, synced_ids) == synced_ids

\* IMessageSyncAgent.sync: _check_database_access() is False, the cycle
\* returns an error before force is looked at
AccessDenied(w) ==
    /\ run[w].pc = "constructed"
    /\ hist[w].src = "imessage"
    /\ run' = Recorded(w, "error")
    /\ hist' = [hist EXCEPT ![w].outcome = "denied"]
    /\ agent' = [agent EXCEPT ![w].synced_ids = DeniedIds(run[w].force, @)]
    /\ UNCHANGED <<file, last, cron, cycles, cache, main, probe>>

\* the sources that read a local store
LocalSources == {"granola", "imessage", "plaud", "whatsapp"}

\* what the cycle of source s returns when its store does not exist:
\* Granola's _read_cache and Plaud's _find_recordings return [] and the
\* cycle ends as one with nothing new; iMessage's _check_database_access
\* and WhatsApp's sync_directory return an error
StoreMissingResult(s) ==
    IF s \in {"granola", "plaud"} THEN "nonew" ELSE "error"

\* the cycle of a source whose cache file, database or directory is not
\* there (the manager tests the directories itself: DirectoryMissing)
StoreMissing(w) ==
    /\ run[w].pc = "constructed"
    /\ hist[w].src \in LocalSources
    /\ run[w].mode = "manager" => hist[w].src \notin FileSources
    /\ run' = Recorded(w, StoreMissingResult(hist[w].src))
    /\ hist' = [hist EXCEPT ![w].outcome = "absent"]
    /\ agent' = [agent EXCEPT ![w].synced_ids =
                    IF hist[w].src \in {"granola", "plaud"}
                    THEN ClearIfForced(run[w].force, @) ELSE @]
    /\ UNCHANGED <<file, last, cron, cycles, cache, main, probe>>

\* IMessageSyncAgent.sync: the check passed, then connecting or querying
\* raises; except Exception returns {"error": "Database error: ..."}
DatabaseError(w) ==
    /\ run[w].pc = "constructed"
    /\ hist[w].src = "imessage"
    /\ run' = Recorded(w, "error")
    /\ hist' = [hist EXCEPT ![w].outcome = "dberror"]
    /\ agent' = [agent EXCEPT ![w].synced_ids = ClearIfForced(run[w].force, @)]
    /\ UNCHANGED <<file, last, cron, cycles, cache, main, probe>>

\* the sync operation raises (iMessage: a database error that is no
\* OperationalError; Plaud: a recording that cannot be read): the manager
\* records an error, an adapter script dies
SyncRaises(w) ==
    /\ run[w].pc = "constructed"
    /\ hist[w].src \in {"imessage", "plaud"}
    /\ run' = IF run[w].mode = "manager" THEN Recorded(w, "error")
              ELSE [run EXCEPT ![w] = IdleRun]
    /\ hist' = [hist EXCEPT ![w].outcome = "raised"]
    /\ UNCHANGED <<file, agent, last, cron, cycles, cache, main, probe>>

\* faulty variant: no raise_for_status(), an error body is returned as the result
PushRaises_never(r) == FALSE

\* push_items: the transport, raise_for_status() or response.json() raises
PushRaises(r) == r.kind = "error"

\* self.client.push_items(...) came back with r (one of PushResponses for
\* the items pushed) and the commit loop over result['results']
Deliver(w, r) ==
    /\ run[w].pc = "deliver"
    /\ hist[w].src \in BatchSources
    /\ LET s == hist[w].src IN
       IF PushRaises(r)
       THEN /\ run' = Recorded(w, "error")
            /\ hist' = [hist EXCEPT ![w].resp = r.kind,
                                    ![w].syncType = SyncType(run[w].force),
                                    ![w].outcome = "pushfail"]
            /\ last' = Completed(w, Range(agent[w].items), {}, TRUE)
            /\ UNCHANGED agent
       ELSE /\ agent' = [agent EXCEPT ![w].synced_ids = @ \cup CommitIds(r.results)]
            /\ run' = [run EXCEPT ![w].pc = "save_open"]
            /\ hist' = [hist EXCEPT ![w].resp = r.kind,
                                    ![w].syncType = SyncType(run[w].force),
                                    ![w].reported = ReportedOk(r)]
            /\ last' = last
    /\ UNCHANGED <<file, cron, cycles, cache, main, probe>>

\* _save_synced_ids, first half: open(..., 'w') truncates the file
SaveOpen(w) ==
    /\ run[w].pc = "save_open"
    /\ file' = [file EXCEPT ![hist[w].src] = OpenForWrite(@)]
    /\ run' = [run EXCEPT ![w].pc = "save_dump"]
    /\ hist' = [hist EXCEPT ![w].wrote = TRUE,
                            ![w].fileWas = LoadSyncedIds(file[hist[w].src]),
                            ![w].saving = agent[w].synced_ids]
    /\ UNCHANGED <<agent, last, cron, cycles, cache, main, probe>>

\* where the adapter goes after _save_synced_ids returned or raised
AfterSave(w, res, outcome, stable) ==
    IF hist[w].src \in BatchSources
    THEN /\ run' = Recorded(w, res)
         /\ hist' = [hist EXCEPT ![w].outcome = outcome]
         /\ last' = Completed(w, Range(agent[w].items), hist[w].reported, stable)
         /\ agent' = agent
    ELSE /\ run' = [run EXCEPT ![w].pc = "files"]
         /\ hist' = [hist EXCEPT ![w].outcome = outcome]
         /\ last' = last
         /\ agent' = [agent EXCEPT ![w].todo = Tail(@)]

\* _save_synced_ids, second half: json.dump writes the whole set
SaveDump(w) ==
    /\ run[w].pc = "save_dump"
    /\ file' = [file EXCEPT ![hist[w].src] = DumpSyncedIds(agent[w].synced_ids)]
    /\ AfterSave(w, "result", "saved", TRUE)
    /\ UNCHANGED <<cron, cycles, cache, main, probe>>

\* the write raises (disk full): the file stays as far as it was written,
\* the except clause of the operation returns an error
SaveFails(w) ==
    /\ run[w].pc = "save_dump"
    /\ AfterSave(w, "error", "savefail", FALSE)
    /\ UNCHANGED <<file, cron, cycles, cache, main, probe>>

\* what a kill (KeyboardInterrupt, SIGKILL, power loss) leaves of the
\* process of worker w
Killed(w) ==
    /\ run' = [run EXCEPT ![w] = IdleRun]
    /\ agent' = [agent EXCEPT ![w] = NoAgent]
    /\ hist' = [hist EXCEPT ![w].extracted = FALSE, ![w].outcome =
                  IF run[w].pc \in {"constructed", "deliver", "save_open"} THEN "aborted"
                  ELSE IF run[w].pc = "save_dump" THEN "killed_in_save"
                  ELSE "killed"]
    /\ last' = NoLast

\* the process is killed in the middle of a cycle
Crash(w) ==
    /\ run[w].pc \in {"constructed", "deliver", "save_open", "save_dump", "files"}
    /\ Killed(w)
    /\ UNCHANGED <<file, cron, cycles, cache, main, probe>>

----------------------------------------------------------------------------
(* Plaud: sync_directory, one sync_file per selected recording *)

RECURSIVE ToSync(_, _, _)
\* the selection loop of sync_directory: unsynced, recent, up to the cap
ToSync(recs, synced_ids, acc) ==
    IF recs = <<>> THEN acc
    ELSE LET rec == Head(recs) IN
         IF ExternalId("plaud", rec) \in synced_ids
             THEN ToSync(Tail(recs), synced_ids, acc)
         ELSE IF ~InWindow("plaud", rec.age)
             THEN ToSync(Tail(recs), synced_ids, acc)
         ELSE LET acc2 == Append(acc, ExternalId("plaud", rec)) IN
              IF Len(acc2) >= MAX_ITEMS_PER_SYNC THEN acc2
              ELSE ToSync(Tail(recs), synced_ids, acc2)

\* PlaudSyncAgent.sync_directory up to the loop over to_sync
PlaudScan(w) ==
    /\ run[w].pc = "constructed"
    /\ hist[w].src = "plaud"
    /\ LET ids == ClearIfForced(run[w].force, agent[w].synced_ids)
           sel == ToSync(SourceRecords("plaud"), ids, <<>>)
       IN  /\ agent' = [agent EXCEPT ![w].synced_ids = ids, ![w].todo = sel]
           /\ hist' = [hist EXCEPT ![w].extracted = TRUE, ![w].base = ids,
                                   ![w].outcome = IF sel = <<>> THEN "nonew" ELSE @]
           /\ run' = IF sel = <<>> THEN Recorded(w, "nonew")
                     ELSE [run EXCEPT ![w].pc = "files"]
    /\ UNCHANGED <<file, last, cron, cycles, cache, main, probe>>

\* sync_file: transcribe_audio returned (did not raise) and
\* result.get('status') in ['created', 'skipped']
TranscribeMarks(r) == r.kind = "ok" /\ ReportedOk(r) # {}

\* PlaudSyncAgent.sync_file for the next selected recording
PlaudSyncFile(w, r) ==
    /\ run[w].pc = "files"
    /\ hist[w].src = "plaud"
    /\ agent[w].todo # <<>>
    /\ LET id == Head(agent[w].todo) IN
       IF id \in agent[w].synced_ids
       THEN /\ r = NoResponse
            /\ agent' = [agent EXCEPT ![w].todo = Tail(@)]
            /\ hist' = [hist EXCEPT ![w].outcome = "skipped"]
            /\ UNCHANGED run
       ELSE /\ r \in TranscribeResponses(id)
            /\ IF TranscribeMarks(r)
               THEN /\ agent' = [agent EXCEPT ![w].synced_ids = @ \cup {id}]
                    /\ run' = [run EXCEPT ![w].pc = "save_open"]
                    /\ hist' = [hist EXCEPT ![w].resp = r.kind,
                                            ![w].reported = @ \cup ReportedOk(r)]
               ELSE /\ agent' = [agent EXCEPT ![w].todo = Tail(@)]
                    /\ run' = run
                    /\ hist' = [hist EXCEPT ![w].resp = r.kind,
                                  ![w].reported = @ \cup ReportedOk(r),
                                  ![w].outcome = IF r.kind = "error" THEN "pushfail"
                                                 ELSE "unmarked"]
    /\ UNCHANGED <<file, last, cron, cycles, cache, main, probe>>

\* the loop over the files is over: the directory summary is returned
FilesDone(w) ==
    /\ run[w].pc = "files"
    /\ agent[w].todo = <<>>
    /\ run' = Recorded(w, "summary")
    /\ UNCHANGED <<file, agent, hist, last, cron, cycles, cache, main, probe>>

----------------------------------------------------------------------------
(* WhatsApp: sync_directory, one sync_export per export file *)

\* path.glob("*.txt") + path.glob("**/*.txt"): the recursive pattern matches
\* the top-level files again
GlobExports ==
    LET top == [i \in DOMAIN SourceRecords("whatsapp") |->
                  ExternalId("whatsapp", SourceRecords("whatsapp")[i])]
    IN  top \o top

\* exports[:MAX_ITEMS_PER_SYNC]
CappedExports ==
    SubSeq(GlobExports, 1,
           IF Len(GlobExports) < MAX_ITEMS_PER_SYNC THEN Len(GlobExports)
           ELSE MAX_ITEMS_PER_SYNC)

\* WhatsAppSyncAgent.sync_directory up to the loop over the exports
WhatsAppScan(w) ==
    /\ run[w].pc = "constructed"
    /\ hist[w].src = "whatsapp"
    /\ agent' = [agent EXCEPT ![w].todo = CappedExports]
    /\ hist' = [hist EXCEPT ![w].extracted = TRUE, ![w].base = agent[w].synced_ids]
    /\ run' = [run EXCEPT ![w].pc = "files"]
    /\ UNCHANGED <<file, last, cron, cycles, cache, main, probe>>

\* faulty variant: the export is marked whatever the call came back with
ExportMarks_always(r) == TRUE

\* sync_export: push_items returned (did not raise) and
\* result.get('processed', 0) > 0
ExportMarks(r) == r.kind = "ok" /\ r.processed > 0

\* WhatsAppSyncAgent.sync_export for the next export file
WhatsAppSyncExport(w, r) ==
    /\ run[w].pc = "files"
    /\ hist[w].src = "whatsapp"
    /\ agent[w].todo # <<>>
    /\ LET id == Head(agent[w].todo) IN
       IF id \in agent[w].synced_ids /\ ~run[w].force
       THEN /\ r = NoResponse
            /\ agent' = [agent EXCEPT ![w].todo = Tail(@)]
            /\ hist' = [hist EXCEPT ![w].outcome = "skipped"]
            /\ UNCHANGED run
       ELSE /\ r \in SingleResponses(id)
            /\ IF ExportMarks(r)
               THEN /\ agent' = [agent EXCEPT ![w].synced_ids = @ \cup {id}]
                    /\ run' = [run EXCEPT ![w].pc = "save_open"]
                    /\ hist' = [hist EXCEPT ![w].resp = r.kind,
                                            ![w].reported = @ \cup ReportedOk(r)]
               ELSE /\ agent' = [agent EXCEPT ![w].todo = Tail(@)]
                    /\ run' = run
                    /\ hist' = [hist EXCEPT ![w].resp = r.kind,
                                  ![w].reported = @ \cup ReportedOk(r),
                                  ![w].outcome = IF r.kind = "error" THEN "pushfail"
                                                 ELSE "unmarked"]
    /\ UNCHANGED <<file, last, cron, cycles, cache, main, probe>>

----------------------------------------------------------------------------
(* Specifications: processes run one after another *)

\* the worker of a sequential deployment (one scheduled job at a time)
SeqWorkers == {"w1"}

\* the steps of the code of a cycle, whoever started the process
SyncStep(w) ==
    \/ Construct(w)
    \/ Report(w)
    \/ Exit(w)
    \/ SyncExtract(w)
    \/ AccessDenied(w)
    \/ SyncRaises(w)
    \/ /\ run[w].pc = "deliver"
       /\ \E r \in PushResponses(Range(agent[w].items)) : Deliver(w, r)
    \/ SaveOpen(w)
    \/ SaveDump(w)
    \/ SaveFails(w)
    \/ PlaudScan(w)
    \/ /\ run[w].pc = "files" /\ hist[w].src = "plaud"
       /\ \E r \in {NoResponse} \cup UNION {TranscribeResponses(i) : i \in Range(agent[w].todo)} :
             PlaudSyncFile(w, r)
    \/ FilesDone(w)
    \/ WhatsAppScan(w)
    \/ /\ run[w].pc = "files" /\ hist[w].src = "whatsapp"
       /\ \E r \in {NoResponse} \cup UNION {SingleResponses(i) : i \in Range(agent[w].todo)} :
             WhatsAppSyncExport(w, r)

\* a cycle runs, or the process is killed in the middle of it
CycleStep(w) ==
    \/ SyncStep(w)
    \/ Crash(w)

\* the scheduled job is the sync manager or one adapter script
Step(w) ==
    \/ \E srcs \in SourceLists, f \in BOOLEAN : StartManager(w, srcs, f)
    \/ \E s \in Sources, f \in BOOLEAN : StartAdapter(w, s, f)
    \/ ConstructRaises(w)
    \/ DirectoryMissing(w)
    \/ CycleStep(w)

Next == \E w \in SeqWorkers : Step(w)

Spec == Init /\ [][Next]_vars

\* the scheduled job is one adapter script (sync_granola.py, sync_fathom.py,
\* sync_imessage.py, sync_plaud.py, sync_whatsapp.py), run again and again
ScriptStep(w) ==
    \/ \E s \in Sources, f \in BOOLEAN : StartAdapter(w, s, f)
    \/ CycleStep(w)

ScriptNext == \E w \in SeqWorkers : ScriptStep(w)

ScriptSpec == Init /\ [][ScriptNext]_vars

----------------------------------------------------------------------------
(* The operations fed with data by their caller: PlaudSyncAgent.sync_from_export
   and WhatsAppSyncAgent.sync_from_bridge.  The records of the source stand
   for the recordings of the export and for the chats of the bridge *)

RECURSIVE FeedItems(_, _, _)
\* the loop over the recordings / chats: every one not yet synced (a
\* recording needs a transcript), no window, no cap
FeedItems(s, recs, synced_ids) ==
    IF recs = <<>> THEN <<>>
    ELSE LET rec == Head(recs)
             rest == FeedItems(s, Tail(recs), synced_ids)
         IN  IF rec.form # "ok" \/ ExternalId(s, rec) \in synced_ids THEN rest
             ELSE <<ExternalId(s, rec)>> \o rest

\* sync_from_export / sync_from_bridge up to the call of push_items
FeedExtract(w) ==
    /\ run[w].pc = "constructed"
    /\ hist[w].src \in FileSources
    /\ ~run[w].force
    /\ LET s == hist[w].src
           its == FeedItems(s, cache[s], agent[w].synced_ids)
       IN  /\ agent' = [agent EXCEPT ![w].items = its]
           /\ hist' = [hist EXCEPT ![w].extracted = TRUE,
                                   ![w].base = agent[w].synced_ids,
                                   ![w].outcome = IF its = <<>> THEN "nonew" ELSE @]
           /\ run' = IF its = <<>> THEN Recorded(w, "nonew")
                     ELSE [run EXCEPT ![w].pc = "feed_deliver"]
    /\ UNCHANGED <<file, last, cron, cycles, cache, main, probe>>

\* the rest of sync_from_export / sync_from_bridge: push_items came back
\* with r, the commit loop, _save_synced_ids (saved: the write went
\* through); nothing here is inside a try, so an exception of push_items or
\* of the save leaves the operation
FeedDeliver(w, r, saved) ==
    /\ run[w].pc = "feed_deliver"
    /\ LET s == hist[w].src IN
       IF PushRaises(r)
       THEN /\ run' = [run EXCEPT ![w] = IdleRun]
            /\ hist' = [hist EXCEPT ![w].resp = r.kind,
                                    ![w].syncType = "incremental",
                                    ![w].outcome = "pushraised"]
            /\ UNCHANGED <<agent, file>>
       ELSE /\ agent' = [agent EXCEPT ![w].synced_ids = @ \cup CommitIds(r.results)]
            /\ hist' = [hist EXCEPT ![w].resp = r.kind,
                                    ![w].syncType = "incremental",
                                    ![w].reported = ReportedOk(r),
                                    ![w].wrote = TRUE,
                                    ![w].fileWas = LoadSyncedIds(file[s]),
                                    ![w].saving = agent'[w].synced_ids,
                                    ![w].outcome = IF saved THEN "saved" ELSE "saveraised"]
            /\ file' = [file EXCEPT ![s] = IF saved THEN DumpSyncedIds(agent'[w].synced_ids)
                                           ELSE OpenForWrite(@)]
            /\ run' = IF saved THEN Recorded(w, "result")
                      ELSE [run EXCEPT ![w] = IdleRun]
    /\ UNCHANGED <<last, cron, cycles, cache, main, probe>>

FeedStep(w) ==
    \/ FeedExtract(w)
    \/ /\ run[w].pc = "feed_deliver"
       /\ \E r \in PushResponses(Range(agent[w].items)), saved \in BOOLEAN :
             FeedDeliver(w, r, saved)

\* an adapter script or a caller of the fed operations, run again and again
FeedNext == \E w \in SeqWorkers : ScriptStep(w) \/ FeedStep(w)

FeedSpec == Init /\ [][FeedNext]_vars

----------------------------------------------------------------------------
(* The process followed from main(): sync_manager.py once or as a daemon,
   or one adapter script *)

\* the default of --url in config.py, and any other value
Placeholder == "placeholder"
Urls == {Placeholder, "configured"}

\* the --sources lists the manager is followed with
MaxSources == 2
MainSourceLists == {q \in SourceLists : Len(q) <= MaxSources}

\* main(): if args.url == "https://your-ninja-os.replit.app": sys.exit(1)
UrlConfigured(u) == u # Placeholder

\* run_daemon: run_all_syncs(url, sources), force left at its default
DaemonForce(flag) == FALSE

\* faulty variant: an exception of a round leaves the loop
AfterException_leave == "died"

\* run_daemon: except Exception prints and falls through to time.sleep
AfterException == "sleep"

\* sync_manager.main: the URL check, then run_daemon or one run_all_syncs
ManagerMain(w, u, srcs, dmn, flag) ==
    /\ main.pc = "off"
    /\ run[w].pc = "idle"
    /\ IF ~UrlConfigured(u)
       THEN /\ main' = [NoMain EXCEPT !.pc = "exit1", !.url = u, !.flag = flag,
                                      !.srcs = srcs]
            /\ UNCHANGED <<run, hist>>
       ELSE IF dmn
       THEN /\ main' = [NoMain EXCEPT !.pc = "loop", !.url = u, !.flag = flag,
                                      !.srcs = srcs]
            /\ UNCHANGED <<run, hist>>
       ELSE /\ main' = [NoMain EXCEPT !.pc = "oneshot", !.url = u, !.flag = flag,
                                      !.srcs = srcs]
            /\ run' = [run EXCEPT ![w] = ManagerRun(srcs, flag)]
            /\ hist' = [hist EXCEPT ![w] = NoHist]
    /\ UNCHANGED <<file, agent, last, cron, cycles, cache, probe>>

\* main() of an adapter script: agent = Agent(args.url, ...); agent.sync(force)
AdapterMain(w, s, f, u) ==
    /\ main.pc = "off"
    /\ run[w].pc = "idle"
    /\ main' = [NoMain EXCEPT !.pc = "script", !.url = u, !.flag = f, !.srcs = <<s>>]
    /\ run' = [run EXCEPT ![w] = CliRun(s, f)]
    /\ hist' = [hist EXCEPT ![w] = NoHist]
    /\ UNCHANGED <<file, agent, last, cron, cycles, cache, probe>>

\* run_daemon, top of the loop: results = run_all_syncs(url, sources)
DaemonCycle(w) ==
    /\ main.pc = "loop"
    /\ run[w].pc = "idle"
    /\ main' = [main EXCEPT !.pc = "running"]
    /\ run' = [run EXCEPT ![w] = ManagerRun(main.srcs, DaemonForce(main.flag))]
    /\ hist' = [hist EXCEPT ![w] = NoHist]
    /\ UNCHANGED <<file, agent, last, cron, cycles, cache, probe>>

\* run_daemon: run_all_syncs or print_summary raises an Exception
SummaryRaises(w) ==
    /\ main.pc = "running"
    /\ run[w].pc = "next"
    /\ run[w].queue = <<>>
    /\ main' = [main EXCEPT !.pc = AfterException, !.failed = TRUE]
    /\ run' = [run EXCEPT ![w] = IdleRun]
    /\ agent' = [agent EXCEPT ![w] = NoAgent]
    /\ hist' = [hist EXCEPT ![w] = NoHist]
    /\ UNCHANGED <<file, last, cron, cycles, cache, probe>>

\* whether the report of the run has an error entry
HasError(results) == \E s \in Sources : results[s] = "error"

\* run_daemon: the summary is printed, "Next sync in ..." and time.sleep
DaemonSleep(w) ==
    /\ main.pc = "running"
    /\ run[w].pc = "reported"
    /\ main' = [main EXCEPT !.pc = "sleep", !.failed = HasError(run[w].results)]
    /\ run' = [run EXCEPT ![w] = IdleRun]
    /\ agent' = [agent EXCEPT ![w] = NoAgent]
    /\ hist' = [hist EXCEPT ![w] = NoHist]
    /\ UNCHANGED <<file, last, cron, cycles, cache, probe>>

\* time.sleep(interval_minutes * 60) returns
Wake ==
    /\ main.pc = "sleep"
    /\ main' = [main EXCEPT !.pc = "loop"]
    /\ UNCHANGED <<file, run, agent, hist, last, cron, cycles, cache, probe>>

\* KeyboardInterrupt: re-raised by run_daemon, main prints "Sync daemon
\* stopped."
Interrupt(w) ==
    /\ main.pc \in {"loop", "running", "sleep"}
    /\ main' = [main EXCEPT !.pc = "stopped"]
    /\ run' = [run EXCEPT ![w] = IdleRun]
    /\ agent' = [agent EXCEPT ![w] = NoAgent]
    /\ hist' = [hist EXCEPT ![w] = NoHist]
    /\ last' = NoLast
    /\ UNCHANGED <<file, cron, cycles, cache, probe>>

\* the one-shot manager or the script returns from main()
MainReturns(w) ==
    /\ main.pc \in {"oneshot", "script"}
    /\ Exit(w)

MainStep(w) ==
    \/ \E u \in Urls, srcs \in MainSourceLists, dmn \in BOOLEAN, flag \in BOOLEAN :
          ManagerMain(w, u, srcs, dmn, flag)
    \/ \E s \in Sources, f \in BOOLEAN, u \in Urls : AdapterMain(w, s, f, u)
    \/ DaemonCycle(w)
    \/ SummaryRaises(w)
    \/ DaemonSleep(w)
    \/ Wake
    \/ Interrupt(w)
    \/ MainReturns(w)
    \/ ConstructRaises(w)
    \/ DirectoryMissing(w)
    \/ StoreMissing(w)
    \/ DatabaseError(w)
    \/ /\ run[w].pc # "reported"
       /\ SyncStep(w)

MainNext == \E w \in SeqWorkers : MainStep(w)

\* when main() is followed each store holds its newest record only: what
\* main() and run_daemon do does not depend on the number of records
MainInit ==
    /\ \E f \in InitFiles : file = [s \in Sources |-> f]
    /\ run = [w \in Workers |-> IdleRun]
    /\ agent = [w \in Workers |-> NoAgent]
    /\ hist = [w \in Workers |-> NoHist]
    /\ last = NoLast
    /\ cron = <<>>
    /\ cycles = 0
    /\ cache = [s \in Sources |-> <<Head(DefaultRecords(s))>>]
    /\ main = NoMain
    /\ probe = NoProbe

MainSpec == MainInit /\ [][MainNext]_vars

\* the loop of run_daemon goes on: time.sleep returns and the next
\* statement of the loop is executed
DaemonFairness ==
    /\ WF_vars(Wake)
    /\ \A w \in SeqWorkers : WF_vars(DaemonCycle(w))

DaemonSpec == MainSpec /\ DaemonFairness

\* an age beyond the lookback window of every adapter
OldAge == LOOKBACK_HOURS * 24 * 7 * 3600 + 1

\* ages (seconds before now) a raw record may have
Ages == {1, 2, OldAge}

\* the stores a source may hold: up to NumRecords records of any ages, in
\* any order of ages
RecordLists ==
    UNION {{[i \in 1..n |-> [id |-> i, age |-> a[i], form |-> "ok"]] : a \in [1..n -> Ages]} :
              n \in 1..NumRecords}

\* one run of an adapter script over any store, with the state file absent
\* or holding an id of the store
ExtractInit ==
    /\ \E f \in {Absent, JsonList({1})} : file = [s \in Sources |-> f]
    /\ run = [w \in Workers |-> IdleRun]
    /\ agent = [w \in Workers |-> NoAgent]
    /\ hist = [w \in Workers |-> NoHist]
    /\ last = NoLast
    /\ cron = <<>>
    /\ cycles = MaxCycles - 1
    /\ \E recs \in RecordLists : cache = [s \in Sources |-> recs]
    /\ main = NoMain
    /\ probe = NoProbe

ExtractSpec == ExtractInit /\ [][ScriptNext]_vars

\* two scheduled jobs of the same adapter script whose runs overlap (a run
\* still going when the next one is started): the processes interleave
\* what a raw record may look like: well-formed and recent or old, one
\* whose parsing raises, one whose timestamp alone cannot be parsed
RawKinds ==
    {[age |-> 1, form |-> "ok"], [age |-> OldAge, form |-> "ok"],
     [age |-> 1, form |-> "malformed"],
     [age |-> 1, form |-> "badtime"], [age |-> OldAge, form |-> "badtime"]}

\* the stores of up to NumRecords raw records of these kinds
FormLists ==
    UNION {{[i \in 1..n |-> [id |-> i, age |-> k[i].age, form |-> k[i].form]] :
               k \in [1..n -> RawKinds]} : n \in 1..NumRecords}

\* an adapter script run twice on a store that holds records of every kind
FormInit ==
    /\ file = [s \in Sources |-> Absent]
    /\ run = [w \in Workers |-> IdleRun]
    /\ agent = [w \in Workers |-> NoAgent]
    /\ hist = [w \in Workers |-> NoHist]
    /\ last = NoLast
    /\ cron = <<>>
    /\ cycles = MaxCycles - 2
    /\ \E recs \in FormLists : cache = [s \in Sources |-> recs]
    /\ main = NoMain
    /\ probe = NoProbe

FormSpec == FormInit /\ [][ScriptNext]_vars

\* seconds by which a record is older than the window of its source: just
\* inside, at, and just outside the old end of the window
BoundaryOffsets == {-1, 0, 1}

\* one run of an adapter script on a store of records around the boundary
WindowInit ==
    /\ file = [s \in Sources |-> Absent]
    /\ run = [w \in Workers |-> IdleRun]
    /\ agent = [w \in Workers |-> NoAgent]
    /\ hist = [w \in Workers |-> NoHist]
    /\ last = NoLast
    /\ cron = <<>>
    /\ cycles = MaxCycles - 1
    /\ \E n \in 1..NumRecords : \E d \in [1..n -> BoundaryOffsets] :
          cache = [s \in Sources |->
                     [i \in 1..n |-> [id |-> i, age |-> Window(s) + d[i], form |-> "ok"]]]
    /\ main = NoMain
    /\ probe = NoProbe

WindowSpec == WindowInit /\ [][ScriptNext]_vars

ConcNext == \E w \in Workers : ScriptStep(w)

ConcSpec == Init /\ [][ConcNext]_vars

----------------------------------------------------------------------------
(* Claims *)

\* the cycle of worker w is one of a batch adapter
IsBatchCycle(w) == hist[w].src \in BatchSources

\* C1 as stated: when push_items raised in a cycle of a batch adapter, the
\* in-memory synced_ids and the state file are both what they were before
\* the cycle, in incremental and in forced cycles
C1_AsStated ==
    \A w \in Workers :
        (IsBatchCycle(w) /\ hist[w].resp = "error")
            => /\ file[hist[w].src] = hist[w].preFile
               /\ agent[w].synced_ids = hist[w].preMem

\* C1 amended: when push_items raised in a cycle of a batch adapter, the
\* state file is what it was before the cycle and no id was added to the
\* in-memory synced_ids: an incremental cycle leaves the in-memory set as
\* loaded, a forced cycle leaves it empty (cleared before the extraction)
C1_PushFailureKeepsState ==
    \A w \in Workers :
        (IsBatchCycle(w) /\ hist[w].resp = "error")
            => /\ file[hist[w].src] = hist[w].preFile
               /\ ~hist[w].wrote
               /\ agent[w].synced_ids =
                     (IF run[w].force THEN {} ELSE hist[w].preMem)

\* C1 witness: a forced cycle that had loaded a non-empty set ended with a
\* failed push
C1_Witness ==
    \E w \in Workers :
        /\ IsBatchCycle(w) /\ hist[w].resp = "error"
        /\ run[w].force /\ hist[w].preMem # {}
        /\ hist[w].outcome = "pushfail"

\* C2: after a 2xx response with a results list the in-memory set is the set
\* at the push united with exactly the ids reported created or skipped, and
\* the state file holds that whole set
C2_CommitIsCreatedOrSkipped ==
    \A w \in Workers :
        (IsBatchCycle(w) /\ hist[w].outcome = "saved")
            => /\ agent[w].synced_ids = hist[w].base \cup hist[w].reported
               /\ file[hist[w].src] = JsonList(hist[w].base \cup hist[w].reported)

\* C2 witness: a saved cycle whose response reported one pushed item created
\* or skipped and another one not
C2_Witness ==
    \E w \in Workers :
        /\ IsBatchCycle(w) /\ hist[w].outcome = "saved"
        /\ Range(agent[w].items) \cap hist[w].reported # {}
        /\ Range(agent[w].items) \ hist[w].reported # {}

\* C3 as stated: every id the state file of a source holds was in the set
\* loaded at construction or was reported created or skipped by a 2xx
\* response of the agent's calls
C3_AsStated ==
    \A w \in Workers :
        hist[w].src # "none"
            => LoadSyncedIds(file[hist[w].src])
                  \subseteq hist[w].preMem \cup hist[w].reported

\* C4 as stated: the incremental cycle right after a cycle whose pushed
\* items were all reported created or skipped, and whose commit was saved,
\* extracts no item
C4_AsStated ==
    \A w \in Workers :
        (/\ IsBatchCycle(w) /\ hist[w].extracted
         /\ hist[w].prev.src = hist[w].src
         /\ hist[w].prev.pushed # {}
         /\ hist[w].prev.pushed \subseteq hist[w].prev.ok
         /\ hist[w].prev.stable
         /\ ~run[w].force)
            => agent[w].items = <<>>

\* C4 amended: the non-forced cycle right after a cycle whose pushed items
\* were all reported created or skipped and whose commit was saved extracts
\* none of those items; it extracts no item at all when that batch was
\* below the cap
C4_NoReExtraction ==
    \A w \in Workers :
        (/\ IsBatchCycle(w) /\ hist[w].extracted
         /\ hist[w].prev.src = hist[w].src
         /\ hist[w].prev.pushed # {}
         /\ hist[w].prev.pushed \subseteq hist[w].prev.ok
         /\ hist[w].prev.stable
         /\ ~run[w].force)
            => /\ Range(agent[w].items) \cap hist[w].prev.pushed = {}
               /\ Cardinality(hist[w].prev.pushed) < MAX_ITEMS_PER_SYNC
                     => agent[w].items = <<>>

\* C4 witness: such a following cycle, after a batch below the cap, has
\* extracted nothing
C4_Witness ==
    \E w \in Workers :
        /\ IsBatchCycle(w) /\ hist[w].extracted
        /\ hist[w].prev.src = hist[w].src
        /\ hist[w].prev.pushed # {}
        /\ hist[w].prev.pushed \subseteq hist[w].prev.ok
        /\ hist[w].prev.stable
        /\ ~run[w].force
        /\ Cardinality(hist[w].prev.pushed) < MAX_ITEMS_PER_SYNC
        /\ agent[w].items = <<>>

\* C5: a cycle whose extraction yielded no item has made no call to the
\* delivery endpoint, has not opened the state file for writing, and has
\* returned (its result is the no-new-items result)
C5_NoItemsNoCallNoWrite ==
    \A w \in Workers :
        (IsBatchCycle(w) /\ hist[w].extracted /\ agent[w].items = <<>>)
            => /\ hist[w].resp = "none"
               /\ ~hist[w].wrote
               /\ file[hist[w].src] = hist[w].preFile
               /\ run[w].pc \in {"next", "reported"}
               /\ run[w].results[hist[w].src] = "nonew"

\* C5 witness: a cycle that extracted nothing has returned
C5_Witness ==
    \E w \in Workers :
        /\ IsBatchCycle(w) /\ hist[w].extracted /\ agent[w].items = <<>>
        /\ hist[w].outcome = "nonew"

\* the items of the cycle before that were pushed and not reported created
\* or skipped: the push failed, or the item was reported failed or left out
Retry(w) == hist[w].prev.pushed \ hist[w].prev.ok

\* C6 as stated: every item pushed and not confirmed in one cycle is in the
\* batch of the next cycle of the source, unless the cap is reached without
\* it
C6_AsStated ==
    \A w \in Workers :
        (/\ IsBatchCycle(w) /\ hist[w].extracted
         /\ hist[w].prev.src = hist[w].src)
            => \A i \in Retry(w) :
                  \/ i \in Range(agent[w].items)
                  \/ Len(agent[w].items) >= MAX_ITEMS_PER_SYNC

\* C6 amended: an item pushed and not confirmed in one cycle is in the batch
\* of the next cycle of the source, unless the cap is reached without it,
\* when the item's id was not in the state the failed cycle loaded or the
\* next cycle is forced (an id already in the state that a forced cycle
\* pushed without success is left out by an incremental cycle); a cycle
\* with items goes on to the push
C6_FailedItemsRetried ==
    \A w \in Workers :
        (/\ IsBatchCycle(w) /\ hist[w].extracted
         /\ hist[w].prev.src = hist[w].src)
            => /\ \A i \in Retry(w) :
                     (i \notin hist[w].prev.known \/ run[w].force)
                        => \/ i \in Range(agent[w].items)
                           \/ Len(agent[w].items) >= MAX_ITEMS_PER_SYNC
               /\ agent[w].items # <<>>
                     => (run[w].pc = "deliver" \/ hist[w].resp # "none")

\* C6 witness: an item reported failed by a 2xx response is in the batch the
\* next cycle has pushed
C6_Witness ==
    \E w \in Workers :
        /\ IsBatchCycle(w) /\ hist[w].extracted
        /\ hist[w].prev.src = hist[w].src
        /\ hist[w].prev.ok # {}
        /\ Retry(w) # {}
        /\ Retry(w) \cap hist[w].prev.known = {}
        /\ Retry(w) \subseteq Range(agent[w].items)
        /\ hist[w].resp # "none"

\* the state file of source s is written by a step only when a worker is in
\* the save of a cycle of s whose push came back with a 2xx response
WrittenOnlyInCommit ==
    \A s \in Sources :
        file'[s] # file[s]
            => \E w \in Workers :
                  /\ hist[w].src = s
                  /\ run[w].pc \in {"save_open", "save_dump"}
                  /\ hist[w].resp = "ok"

\* a cycle that has not reached its save, aborted or not, has left the
\* state file as it was when the agent was constructed
UnwrittenIsUnchanged ==
    \A w \in Workers :
        (hist[w].src # "none" /\ ~hist[w].wrote)
            => file[hist[w].src] = hist[w].preFile

\* C7: the persisted state of a source changes only in the commit step after
\* a successful push response, and a cycle aborted after the load, after the
\* extraction or right after the push leaves the state file equal to its
\* value before the cycle
C7_OnlyCommitWrites == []UnwrittenIsUnchanged /\ [][WrittenOnlyInCommit]_vars

\* C7 witness: a cycle was killed right after a successful push, before the
\* state file was opened, and the file is as before the cycle
C7_Witness ==
    \E w \in Workers :
        /\ hist[w].outcome = "aborted"
        /\ hist[w].resp = "ok"
        /\ hist[w].reported # {}
        /\ ~hist[w].wrote
        /\ file[hist[w].src] = hist[w].preFile

\* C8 as stated: from the moment the state file is opened for writing it
\* reads back as the complete previous set or the complete new set
C8_AsStated ==
    \A w \in Workers :
        hist[w].wrote
            => LoadSyncedIds(file[hist[w].src]) \in {hist[w].fileWas, hist[w].saving}

\* C9 as stated: when the state file is absent or does not hold a list of
\* ids, the load does not raise and yields the empty set, the extraction
\* runs with the empty set, and a cycle that commits leaves a valid file
C9_AsStated ==
    \A w \in Workers :
        (hist[w].src # "none" /\ hist[w].preFile.kind # "list")
            => /\ hist[w].outcome # "loadraised"
               /\ hist[w].preMem = {}
               /\ hist[w].extracted => hist[w].base = {}
               /\ hist[w].outcome = "saved"
                     => file[hist[w].src] = JsonList(agent[w].synced_ids)

\* a step writes the state file of a source only while the run is at that
\* source
OnlyCurrentSourceWritten ==
    \A s \in Sources :
        file'[s] # file[s]
            => \E w \in Workers : run[w].queue # <<>> /\ Cur(w) = s

\* the report of a finished run of the manager has an entry for exactly the
\* enabled sources
OneEntryPerEnabledSource ==
    \A w \in Workers :
        (run[w].mode = "manager" /\ run[w].pc = "reported")
            => \A s \in Sources :
                  (s \in run[w].enabled) <=> (run[w].results[s] # "none")

\* C10: in run_all_syncs a failing source neither keeps the sources after it
\* from getting their turn nor changes their state files, and the report has
\* exactly one entry for every enabled source
C10_SourcesIsolated ==
    []OneEntryPerEnabledSource /\ [][OnlyCurrentSourceWritten]_vars

\* C10 witness: a run over several sources has returned its report, one
\* source ended with an error and a source after it ran its cycle
C10_Witness ==
    \E w \in Workers :
        /\ run[w].mode = "manager" /\ run[w].pc = "reported"
        /\ \E i, j \in 1..Len(ManagerOrder) :
              /\ i < j
              /\ run[w].results[ManagerOrder[i]] = "error"
              /\ run[w].results[ManagerOrder[j]] \in {"result", "nonew", "summary"}

\* C11 as stated: cycles of one source do not overlap, so when two
\* incremental cycles of the source have both saved their set, the ids each
\* of them saved are still in the state file
C11_AsStated ==
    \A w, v \in Workers :
        (/\ w # v
         /\ hist[w].src = hist[v].src
         /\ hist[w].outcome = "saved" /\ ~run[w].force
         /\ hist[v].outcome = "saved" /\ ~run[v].force)
            => hist[w].saving \subseteq LoadSyncedIds(file[hist[w].src])

\* the records of source s an incremental extraction with the dedup set
\* synced_ids admits: inside the window, id not in the set
Qualifying(s, synced_ids) ==
    {i \in DOMAIN cache[s] : ParseMeeting(s, cache[s][i], synced_ids) # None}

\* C12: the batch a cycle extracts and pushes has at most
\* MAX_ITEMS_PER_SYNC items, and a directory run selects at most that many
\* files, however many unsynced records inside the window the source holds
C12_BatchWithinCap ==
    \A w \in Workers :
        /\ Len(agent[w].items) <= MAX_ITEMS_PER_SYNC
        /\ Len(agent[w].todo) <= MAX_ITEMS_PER_SYNC

\* C12 witness: a batch of exactly the cap was pushed while the source held
\* more unsynced records inside the window than the cap
C12_Witness ==
    \E w \in Workers :
        /\ IsBatchCycle(w) /\ hist[w].resp # "none"
        /\ Len(agent[w].items) = MAX_ITEMS_PER_SYNC
        /\ Cardinality(Qualifying(hist[w].src, hist[w].base)) > MAX_ITEMS_PER_SYNC

\* hours since the record of source s with external id x was made
AgeOf(s, x) ==
    LET i == CHOOSE k \in DOMAIN cache[s] : ExternalId(s, cache[s][k]) = x
    IN  cache[s][i].age

\* the extracted items of worker w are newest-first, and every qualifying
\* record left out of them is no newer than any of them
NewestPushed(w) ==
    LET s == hist[w].src
        its == agent[w].items
    IN  /\ \A i, j \in DOMAIN its : i < j => AgeOf(s, its[i]) <= AgeOf(s, its[j])
        /\ \A q \in Qualifying(s, hist[w].base) :
               ExternalId(s, cache[s][q]) \notin Range(its)
                   => \A x \in Range(its) : AgeOf(s, x) <= cache[s][q].age

\* C13 as stated: the items a batch adapter extracts for a cycle are ordered
\* newest-first, and when more records qualify than the cap allows, the ones
\* left out are no newer than the ones in the batch
C13_AsStated ==
    \A w \in Workers :
        (IsBatchCycle(w) /\ hist[w].extracted) => NewestPushed(w)

\* C14 as stated, over two consecutive cycles: when an incremental cycle
\* follows a completed incremental cycle of the same source whose batch was
\* at the cap, and a qualifying record was left out of that batch, then the
\* batch of this cycle holds a record that was left out, also when the
\* server answered the earlier push and reported every item of it as failed
C14_AsStated ==
    \A w \in Workers :
        (/\ IsBatchCycle(w) /\ hist[w].extracted /\ ~run[w].force
         /\ hist[w].prev.src = hist[w].src /\ hist[w].prev.stable
         /\ hist[w].prev.answered
         /\ Cardinality(hist[w].prev.pushed) = MAX_ITEMS_PER_SYNC
         /\ \E q \in Qualifying(hist[w].src, hist[w].base) :
                ExternalId(hist[w].src, cache[hist[w].src][q]) \notin hist[w].prev.pushed)
            => ~(Range(agent[w].items) \subseteq hist[w].prev.pushed)

\* the records of source s are all in the batch of worker w, or the batch
\* is at the cap
AllPushedUpToCap(w, recs) ==
    \/ Len(agent[w].items) >= MAX_ITEMS_PER_SYNC
    \/ \A i \in recs : ExternalId(hist[w].src, cache[hist[w].src][i]) \in Range(agent[w].items)

\* C15 as stated: in a forced cycle every record the source holds whose id
\* was in the state the cycle loaded is in the batch again, up to the cap,
\* and the push is sent with syncType full
C15_AsStated ==
    \A w \in Workers :
        (IsBatchCycle(w) /\ hist[w].extracted /\ run[w].force)
            => /\ AllPushedUpToCap(w, {i \in DOMAIN cache[hist[w].src] :
                      ExternalId(hist[w].src, cache[hist[w].src][i]) \in hist[w].preMem})
               /\ hist[w].resp # "none" => hist[w].syncType = "full"

\* C16 as stated: in a forced cycle a record of any age is in the batch, up
\* to the cap
C16_AsStated ==
    \A w \in Workers :
        (IsBatchCycle(w) /\ hist[w].extracted /\ run[w].force)
            => AllPushedUpToCap(w, DOMAIN cache[hist[w].src])

\* C17 as stated: when the manager was given --force, every cycle it runs
\* is a forced cycle, in one-shot mode and in daemon mode
C17_AsStated ==
    \A w \in Workers :
        (/\ main.pc \in {"oneshot", "running"}
         /\ main.flag
         /\ run[w].pc \notin {"idle", "reported"})
            => run[w].force

\* the states of main() in which the loop of run_daemon is alive
InLoop == {"loop", "running", "sleep"}

\* a round of the daemon has just started: run_all_syncs is at the first of
\* all the configured sources
RoundStarted ==
    /\ main.pc = "running"
    /\ \E w \in SeqWorkers : run[w].pc = "next" /\ run[w].queue = main.srcs

\* C18: in daemon mode every round that has ended, with or without an error
\* entry or an exception, is followed by the start of another round over all
\* the configured sources unless a keyboard interrupt stops the daemon, and
\* nothing but a keyboard interrupt takes main() out of the loop
C18_DaemonKeepsCycling ==
    /\ (main.pc = "sleep") ~> (RoundStarted \/ main.pc = "stopped")
    /\ [][(main.pc \in InLoop /\ main'.pc \notin InLoop)
              => \E w \in SeqWorkers : Interrupt(w)]_vars

\* C18 witness: a round is running after a round that ended with an error
\* entry or an exception
C18_Witness ==
    /\ main.pc = "running"
    /\ main.failed
    /\ \E w \in SeqWorkers : run[w].pc = "constructed"

\* C19: whenever run_all_syncs or a script has constructed the agent of a
\* source, in one-shot mode or in a round of the daemon, the agent's
\* in-memory set is the set the source's state file holds at that moment,
\* whatever earlier cycles held in memory
C19_FreshFromFile ==
    \A w \in Workers :
        run[w].pc = "constructed"
            => agent[w].synced_ids = LoadSyncedIds(file[hist[w].src])

\* C19 witness: a round of the daemon has constructed the agent of a source
\* whose previous cycle pushed items and ended with the in-memory set and
\* the state file apart (the write of the file failed)
C19_Witness ==
    \E w \in Workers :
        /\ run[w].pc = "constructed"
        /\ main.pc = "running"
        /\ hist[w].prev.src = hist[w].src
        /\ hist[w].prev.pushed # {}
        /\ ~hist[w].prev.stable

\* C20 as stated: when main() of the manager or of an adapter script was
\* started with the placeholder URL, it has exited with status 1 and no
\* agent was constructed and no call was made
C20_AsStated ==
    (main.pc # "off" /\ main.url = Placeholder)
        => /\ main.pc = "exit1"
           /\ \A w \in Workers : run[w].pc = "idle" /\ hist[w].src = "none"

\* C21 as stated: the cycle of a source whose store is absent makes no
\* call, leaves the state file as it was and reports the source as skipped,
\* which is neither an error nor "nothing new"
C21_AsStated ==
    \A w \in Workers :
        hist[w].outcome = "absent"
            => /\ hist[w].resp = "none"
               /\ file[hist[w].src] = hist[w].preFile
               /\ run[w].results[hist[w].src] = "skipped"

\* C22: when the iMessage database cannot be opened or queried, the cycle
\* has made no call, the state file and the in-memory set are what they
\* were when the agent was constructed, also in a forced cycle, and the
\* source has an error result in the report of a process that is still alive
C22_DeniedLeavesState ==
    \A w \in Workers :
        hist[w].outcome = "denied"
            => /\ hist[w].resp = "none"
               /\ file["imessage"] = hist[w].preFile
               /\ agent[w].synced_ids = hist[w].preMem
               /\ run[w].results["imessage"] = "error"
               /\ run[w].pc \in {"next", "reported"}

\* C22 witness: access was denied in a forced cycle whose agent had loaded
\* a non-empty set
C22_Witness ==
    \E w \in Workers :
        /\ hist[w].outcome = "denied"
        /\ run[w].force
        /\ hist[w].preMem # {}
        /\ agent[w].synced_ids # {}

\* the ids of the well-formed records of source s that are inside its
\* window and not in synced_ids
WellFormedNew(s, synced_ids) ==
    {ExternalId(s, cache[s][i]) :
        i \in {k \in DOMAIN cache[s] :
                  /\ cache[s][k].form = "ok"
                  /\ InWindow(s, cache[s][k].age)
                  /\ ExternalId(s, cache[s][k]) \notin synced_ids}}

\* C23 as stated: the items an incremental cycle extracts are the
\* well-formed, unsynced records inside the window and nothing else,
\* wherever the other records sit in the list (all of them, unless the
\* batch is at the cap)
C23_AsStated ==
    \A w \in Workers :
        (IsBatchCycle(w) /\ hist[w].extracted /\ ~run[w].force)
            => LET wf == WellFormedNew(hist[w].src, hist[w].base)
               IN  /\ Range(agent[w].items) \subseteq wf
                   /\ \/ wf \subseteq Range(agent[w].items)
                      \/ Len(agent[w].items) >= MAX_ITEMS_PER_SYNC

\* the form of the record of source s with external id x
FormOf(s, x) ==
    LET i == CHOOSE k \in DOMAIN cache[s] : ExternalId(s, cache[s][k]) = x
    IN  cache[s][i].form

\* C24 as stated: no batch a cycle extracts or pushes holds a record whose
\* timestamp cannot be parsed
C24_AsStated ==
    \A w \in Workers :
        (IsBatchCycle(w) /\ hist[w].extracted)
            => \A x \in Range(agent[w].items) : FormOf(hist[w].src, x) # "badtime"

\* C25 as stated: in an incremental cycle a record made exactly one window
\* ago is in the batch (unless the batch is at the cap), and a record one
\* second older is not
C25_AsStated ==
    \A w \in Workers :
        (IsBatchCycle(w) /\ hist[w].extracted /\ ~run[w].force)
            => LET s == hist[w].src IN
               \A i \in DOMAIN cache[s] :
                   LET x == ExternalId(s, cache[s][i]) IN
                   /\ (cache[s][i].age = Window(s) /\ x \notin hist[w].base)
                          => \/ x \in Range(agent[w].items)
                             \/ Len(agent[w].items) >= MAX_ITEMS_PER_SYNC
                   /\ cache[s][i].age = Window(s) + 1 => x \notin Range(agent[w].items)

\* C26 as stated: whatever the adapter, no record older than LOOKBACK_HOURS
\* hours is in the batch of an incremental cycle
C26_AsStated ==
    \A w \in Workers :
        (IsBatchCycle(w) /\ hist[w].extracted /\ ~run[w].force)
            => \A x \in Range(agent[w].items) :
                   AgeOf(hist[w].src, x) <= LOOKBACK_HOURS * 3600

-----------------------------------------------------------------------------
(* The derivation of the external id followed on its own: two raw records of
   one source, whose ids are derived.  A string is a sequence of characters;
   the prefix, a number and a timestamp are one character each (they hold no
   character of a key) *)

\* the longest key string drawn
MaxKeyLen == 2
Chars == {"a"}
Strs == UNION {[1..n -> Chars] : n \in 0..MaxKeyLen}
Stamps == {1, 2}

\* a raw record: id (Granola id, tail of the Fathom url, Plaud basename,
\* chat identifier, chat name), title, stamp (startTime, created_at, st_mtime,
\* latestDate), size (st_size) and a field no adapter reads
RawRecords == [id : Strs, title : Strs, stamp : Stamps, size : {1, 2}, other : {1, 2}]

\* the fields the adapter's id is made from
NaturalKeys(s, r) ==
    CASE s \in {"granola", "fathom"} -> <<r.id, r.title, r.stamp>>
      [] s = "plaud" -> <<r.id, r.size, r.stamp>>
      [] OTHER -> <<r.id, r.stamp>>

\* str() of a number or a timestamp
Str(n) == <<n>>

UniqueStr_whole(s, r) ==
    <<s, "_">> \o r.id \o r.title \o Str(r.stamp) \o Str(r.size) \o Str(r.other)

\* the f-string each adapter hashes
UniqueStr(s, r) ==
    CASE s \in {"granola", "fathom"} -> <<s, "_">> \o r.id \o r.title \o Str(r.stamp)
      [] s = "plaud" -> <<s, "_">> \o r.id \o <<"_">> \o Str(r.size) \o <<"_">> \o Str(r.stamp)
      [] OTHER -> <<s, "_">> \o r.id \o <<"_">> \o Str(r.stamp)

\* hashlib.md5(...).hexdigest(), taken as collision-free
Md5(str) == <<"md5", str>>

GenerateExternalId(s, r) == Md5(UniqueStr(s, r))

IdleRest ==
    /\ file = [s \in Sources |-> Absent]
    /\ run = [w \in Workers |-> IdleRun]
    /\ agent = [w \in Workers |-> NoAgent]
    /\ hist = [w \in Workers |-> NoHist]
    /\ last = NoLast
    /\ cron = <<>>
    /\ cycles = 0
    /\ cache = [s \in Sources |-> <<>>]
    /\ main = NoMain

IdInit ==
    /\ IdleRest
    /\ \E s \in Sources, a \in RawRecords, b \in RawRecords :
           probe = [pc |-> "raw", src |-> s, a |-> a, b |-> b]

\* one extraction derives the id of both records
DeriveIds ==
    /\ probe.pc = "raw"
    /\ probe' = [pc |-> "derived", src |-> probe.src, a |-> probe.a, b |-> probe.b,
                 ida |-> GenerateExternalId(probe.src, probe.a),
                 idb |-> GenerateExternalId(probe.src, probe.b)]
    /\ UNCHANGED <<file, run, agent, hist, last, cron, cycles, cache, main>>

\* a later extraction derives the id of the first record again
DeriveAgain ==
    /\ probe.pc = "derived"
    /\ probe' = [pc |-> "again", src |-> probe.src, a |-> probe.a, b |-> probe.b,
                 ida |-> probe.ida, idb |-> probe.idb,
                 again |-> GenerateExternalId(probe.src, probe.a)]
    /\ UNCHANGED <<file, run, agent, hist, last, cron, cycles, cache, main>>

IdNext == DeriveIds \/ DeriveAgain

IdSpec == IdInit /\ [][IdNext]_vars

C28_AsStated ==
    probe.pc \in {"derived", "again"}
        => (NaturalKeys(probe.src, probe.a) # NaturalKeys(probe.src, probe.b)
                => probe.ida # probe.idb)

-----------------------------------------------------------------------------
(* FathomSyncAgent._fetch_meetings followed on its own: the pagination loop
   against an API that answers each request with any page *)

\* the most items one page holds
MaxPage == 2
Pages == UNION {[1..n -> 1..NumRecords] : n \in 0..MaxPage}
NoCursor == "none"
Cursors == {"c1", "c2"}

FetchInit ==
    /\ IdleRest
    /\ \E ca \in BOOLEAN :
           probe = [pc |-> "loop", created_after |-> ca, all_meetings |-> <<>>,
                    cursor |-> NoCursor]

\* the test that ends the loop after a page
LoopEnds(cursor, all_meetings) ==
    cursor = NoCursor \/ Len(all_meetings) >= MAX_ITEMS_PER_SYNC

\* one request answered with a page: its items and its cursor
FetchPage ==
    /\ probe.pc = "loop"
    /\ \E items \in Pages, c \in Cursors \cup {NoCursor} :
           LET all == probe.all_meetings \o items IN
           probe' = [probe EXCEPT !.all_meetings = all, !.cursor = c,
                                  !.pc = IF LoopEnds(c, all) THEN "done" ELSE "loop"]
    /\ UNCHANGED <<file, run, agent, hist, last, cron, cycles, cache, main>>

\* one request that raises RequestException (a timeout after 30 s, an HTTP
\* error status)
FetchRaises ==
    /\ probe.pc = "loop"
    /\ probe' = [probe EXCEPT !.pc = "done"]
    /\ UNCHANGED <<file, run, agent, hist, last, cron, cycles, cache, main>>

FetchNext == FetchPage \/ FetchRaises

\* every request is answered or times out, so the loop goes on while it can
FetchSpec == FetchInit /\ [][FetchNext]_vars /\ WF_vars(FetchNext)

\* C29 as stated: whatever pages the API returns, _fetch_meetings leaves its
\* pagination loop
C29_AsStated == <>(probe.pc = "done")

-----------------------------------------------------------------------------
(* The time window of the iMessage adapter followed on its own.  Times are
   seconds; an absolute time is counted from 2001-01-01 00:00:00 UTC, the
   epoch of message.date; a naive datetime is the wall-clock reading, counted
   from the wall-clock reading 2001-01-01 00:00:00 *)

\* the largest UTC offset of the local clock drawn, in hours
MaxOffset == 2
Offsets == {h * 3600 : h \in -MaxOffset..MaxOffset}

\* message.date counts the ticks of a second (10^9 in the source; 10^3 here,
\* where integers have 32 bits: both sides of the comparison scale alike)
TicksPerSecond == 1000

\* the absolute time of the cycle, and the hours given with --hours
Now == 3 * LOOKBACK_HOURS * 3600
SinceHours == {1, LOOKBACK_HOURS}

\* the absolute times of a message: around the start of the window, half an
\* hour apart, for every offset
MessageTimes(h) ==
    {Now - h * 3600 + d * 1800 : d \in (-2 * MaxOffset - 1)..(2 * MaxOffset + 1)}

\* datetime.now(): the naive wall-clock reading at absolute time t
DatetimeNow(t, offset) == t + offset

\* int((since - apple_epoch).total_seconds() * 1e9), both datetimes naive
SinceApple(now, offset, hours) ==
    (DatetimeNow(now, offset) - hours * 3600) * TicksPerSecond

\* message.date of a message sent at absolute time t
MessageDate(t) == t * TicksPerSecond

TimeInit ==
    /\ IdleRest
    /\ \E off \in Offsets, h \in SinceHours :
       \E t \in MessageTimes(h) :
           probe = [pc |-> "sync", offset |-> off, hours |-> h, sent |-> t]

\* sync() computes since and _get_conversations runs WHERE m.date > ?
GetConversations ==
    /\ probe.pc = "sync"
    /\ probe' = [pc |-> "selected", offset |-> probe.offset, hours |-> probe.hours,
                 sent |-> probe.sent,
                 selected |-> MessageDate(probe.sent)
                                  > SinceApple(Now, probe.offset, probe.hours)]
    /\ UNCHANGED <<file, run, agent, hist, last, cron, cycles, cache, main>>

TimeNext == GetConversations

TimeSpec == TimeInit /\ [][TimeNext]_vars

\* C30 as stated: whatever the UTC offset of the local clock, a message sent
\* less than the lookback duration ago is selected and a message sent more
\* than the lookback duration ago is not
C30_AsStated ==
    probe.pc = "selected"
        => /\ probe.sent > Now - probe.hours * 3600 => probe.selected
           /\ probe.sent < Now - probe.hours * 3600 => ~probe.selected

\* the cycle of worker w is one push of a batch: a cycle of a batch adapter
\* or a fed operation
IsOnePush(w) == IsBatchCycle(w) \/ hist[w].outcome \in {"pushraised", "saveraised"}

\* C31 as stated: when the call of the endpoint raised, no exception left
\* the operation, and where the operation pushes one batch the state file is
\* what it was before
C31_AsStated ==
    \A w \in Workers :
        hist[w].resp = "error"
            => /\ hist[w].outcome # "pushraised"
               /\ IsOnePush(w) /\ hist[w].outcome = "pushfail"
                      => file[hist[w].src] = hist[w].preFile

-----------------------------------------------------------------------------
(* The building of an item followed on its own: the type and the
   participants each adapter gives the item it makes of a raw record *)

\* the most raw participants a record holds
MaxParts == 2

\* the item types of the delivery contract; NoType: the item has no "type" key
ItemTypes == {"meeting", "call", "text", "email"}
NoType == "absent"

\* a raw participant: a string (name), a JSON object with any of name,
\* email, phone empty or not, or a value of another type
RawParticipants ==
    [kind : {"str", "dict", "other"}, name : {"", "n"}, email : {"", "e"},
     phone : {"", "p"}]
RawPartLists == UNION {[1..n -> RawParticipants] : n \in 0..MaxParts}

\* recorded_by.name of a Fathom meeting
Hosts == {"", "n", "h"}

RECURSIVE GranolaParticipants(_)
\* sync_granola._parse_meeting: a string becomes {"name": p}, an object
\* {"name": ..., "email": ...}, anything else is left out
GranolaParticipants(parts) ==
    IF parts = <<>> THEN <<>>
    ELSE LET q == Head(parts)
             rest == GranolaParticipants(Tail(parts))
         IN  IF q.kind = "str" THEN <<[name |-> q.name]>> \o rest
             ELSE IF q.kind = "dict" THEN <<[name |-> q.name, email |-> q.email]>> \o rest
             ELSE rest

RECURSIVE FathomInvitees(_)
\* sync_fathom._parse_meeting: the invitees that have a name
FathomInvitees(parts) ==
    IF parts = <<>> THEN <<>>
    ELSE LET q == Head(parts)
             rest == FathomInvitees(Tail(parts))
         IN  IF q.name # "" THEN <<[name |-> q.name, email |-> q.email]>> \o rest
             ELSE rest

\* the invitees, with the host put first when named and not among them
FathomParticipants(parts, host) ==
    LET inv == FathomInvitees(parts) IN
    IF host # "" /\ \A i \in DOMAIN inv : inv[i].name # host
    THEN <<[name |-> host, email |-> ""]>> \o inv
    ELSE inv

\* IMessageSyncAgent.sync: one entry for the handle of the conversation,
\* keyed by its phone, else its email, else its display name
IMessageParticipants(parts) ==
    IF parts = <<>> THEN <<>>
    ELSE LET q == Head(parts) IN
         IF q.phone # "" THEN <<[phone |-> q.phone, name |-> q.name]>>
         ELSE IF q.email # "" THEN <<[email |-> q.email, name |-> q.name]>>
         ELSE IF q.name # "" THEN <<[name |-> q.name]>>
         ELSE <<>>

RECURSIVE WhatsAppParticipants(_)
\* [{"name": p} for p in participants]: the stripped sender of every message
WhatsAppParticipants(parts) ==
    IF parts = <<>> THEN <<>>
    ELSE <<[name |-> Head(parts).name]>> \o WhatsAppParticipants(Tail(parts))

\* the "participants" of the item the adapter of s makes
Participants(s, parts, host) ==
    CASE s = "granola" -> GranolaParticipants(parts)
      [] s = "fathom" -> FathomParticipants(parts, host)
      [] s = "imessage" -> IMessageParticipants(parts)
      [] s = "whatsapp" -> WhatsAppParticipants(parts)
      [] OTHER -> <<>>

\* the "type" of the item the adapter of s makes
ItemType(s) ==
    CASE s = "granola" -> "meeting"
      [] s = "fathom" -> NoType
      [] s = "plaud" -> "call"
      [] OTHER -> "text"

ItemInit ==
    /\ IdleRest
    /\ \E s \in Sources, parts \in RawPartLists, host \in Hosts :
           probe = [pc |-> "raw", src |-> s, parts |-> parts, host |-> host]

\* the adapter makes the item of the raw record
BuildItem ==
    /\ probe.pc = "raw"
    /\ probe' = [pc |-> "item", src |-> probe.src, parts |-> probe.parts,
                 host |-> probe.host,
                 item |-> [type |-> ItemType(probe.src),
                           participants |-> Participants(probe.src, probe.parts,
                                                         probe.host)]]
    /\ UNCHANGED <<file, run, agent, hist, last, cron, cycles, cache, main>>

\* the item is in the batch given to push_items
PushItem ==
    /\ probe.pc = "item"
    /\ probe' = [probe EXCEPT !.pc = "pushed"]
    /\ UNCHANGED <<file, run, agent, hist, last, cron, cycles, cache, main>>

ItemNext == BuildItem \/ PushItem

ItemSpec == ItemInit /\ [][ItemNext]_vars

\* an entry with a non-empty name, phone or email
Identified(e) ==
    \E k \in DOMAIN e \cap {"name", "phone", "email"} : e[k] # ""

\* C32 as stated: every participant entry of a pushed item has a non-empty
\* name, phone or email
C32_AsStated ==
    probe.pc = "pushed"
        => \A i \in DOMAIN probe.item.participants :
               Identified(probe.item.participants[i])

\* C33 as stated: the type of every pushed item is one of meeting, call,
\* text, email
C33_AsStated ==
    probe.pc = "pushed" => probe.item.type \in ItemTypes

\* C34 as stated: after the commit of a cycle of a batch adapter was saved,
\* the in-memory set and the set the state file holds are within the set
\* loaded before the cycle united with the externalIds of the batch pushed
C34_AsStated ==
    \A w \in Workers :
        (IsBatchCycle(w) /\ hist[w].outcome = "saved")
            => LET allowed == hist[w].preMem \cup Range(agent[w].items) IN
               /\ agent[w].synced_ids \subseteq allowed
               /\ LoadSyncedIds(file[hist[w].src]) \subseteq allowed

\* C35: a forced cycle of a batch adapter opens the state file for writing
\* only after its push succeeded; once saved, the file holds exactly the ids
\* that response reported created or skipped; a forced cycle that extracted
\* nothing or whose push failed has left the file as it was and the
\* in-memory set empty
C35_ForcedCycleFile ==
    \A w \in Workers :
        (IsBatchCycle(w) /\ run[w].force)
            => /\ hist[w].wrote => hist[w].resp = "ok"
               /\ hist[w].outcome = "saved"
                      => file[hist[w].src] = JsonList(hist[w].reported)
               /\ hist[w].outcome \in {"nonew", "pushfail"}
                      => /\ file[hist[w].src] = hist[w].preFile
                         /\ ~hist[w].wrote
                         /\ agent[w].synced_ids = {}

\* C35 witness: a forced cycle was saved and an id the file held before is
\* gone from it
C35_Witness ==
    \E w \in Workers :
        /\ IsBatchCycle(w) /\ run[w].force
        /\ hist[w].outcome = "saved"
        /\ hist[w].preMem \ hist[w].reported # {}
        /\ file[hist[w].src] = JsonList(hist[w].reported)

\* C36: in a cycle that is not forced, unless a save was cut short (the
\* file is left truncated), the set the state file reads back as holds
\* every id it read back as when the cycle began
C36_StateOnlyGrows ==
    \A w \in Workers :
        (hist[w].src # "none" /\ run[w].pc # "idle" /\ ~run[w].force
         /\ file[hist[w].src].kind # "garbage")
            => LoadSyncedIds(hist[w].preFile) \subseteq LoadSyncedIds(file[hist[w].src])

\* C36 witness: a cycle that is not forced began with ids in the file and
\* was saved with more
C36_Witness ==
    \E w \in Workers :
        /\ hist[w].src # "none" /\ run[w].pc # "idle" /\ ~run[w].force
        /\ hist[w].outcome = "saved"
        /\ LoadSyncedIds(hist[w].preFile) # {}
        /\ LoadSyncedIds(file[hist[w].src]) \ LoadSyncedIds(hist[w].preFile) # {}

\* worker w, in sync_directory of WhatsApp, takes the step that pushes the
\* export file at the head of the list (the file is not skipped as synced)
PushesExport(w) ==
    /\ hist[w].src = "whatsapp"
    /\ run[w].pc = "files"
    /\ agent[w].todo # <<>>
    /\ ~(Head(agent[w].todo) \in agent[w].synced_ids /\ ~run[w].force)
    /\ run'[w].pc \in {"files", "save_open"}

\* the place in exports[:MAX_ITEMS_PER_SYNC] of the file at the head of the list
PlaceOfHead(w) == Len(CappedExports) - Len(agent[w].todo) + 1

\* C37 as stated: a file that sync_directory pushes was not gone through
\* earlier in the same call (an earlier pass that skipped it would have it
\* skipped again, so the earlier pass pushed it too)
C37_AsStated ==
    [][\A w \in Workers :
          PushesExport(w)
              => \A j \in 1..(PlaceOfHead(w) - 1) :
                     CappedExports[j] # Head(agent[w].todo)]_vars

\* C38 as stated: while and after PlaudSyncAgent.sync_directory goes through
\* the selected recordings, at most MAX_ITEMS_PER_SYNC were selected, and an
\* id confirmed in the call that the state file held when a later save began
\* is still in the file, whatever result that later recording had
C38_AsStated ==
    \A w \in Workers :
        (hist[w].src = "plaud" /\ run[w].pc \in {"files", "next", "reported"})
            => /\ Len(agent[w].todo) <= MAX_ITEMS_PER_SYNC
               /\ hist[w].wrote
                      => (hist[w].fileWas \cap hist[w].reported)
                             \subseteq LoadSyncedIds(file["plaud"])

====
